---- MODULE Spec2Model ----
(***************************************************************************)
(* Playback synchronisation of the sentence practice screen:              *)
(*   ScriptPracticeScreen.tsx  (the orchestrator: React state, handlers,  *)
(*                              timers),                                   *)
(*   AudioPlayer.tsx           (WebAudioPlayer with voice activity         *)
(*                              detection, NativeAudioPlayer),             *)
(*   ttsService                (TTSService: expo-speech and OpenAI sound), *)
(* and transcript resolution:                                              *)
(*   whisperService            (getTranscriptData with its source cache,   *)
(*                              the cache probe and the transcription),    *)
(*   ScriptPracticeScreen.tsx  (loadTranscript).                           *)
(*                                                                         *)
(* React semantics kept by the model: a handler invoked from the UI reads  *)
(* the state of the latest render; a callback created inside a handler     *)
(* (setTimeout, setInterval, promise then) keeps the values of the render  *)
(* it was created in.  Such captured values are stored with the pending    *)
(* timer, interval or promise.                                             *)
(*                                                                         *)
(* Optional values (a ref that may be null) are sets of at most one        *)
(* element: {} is null.  Sentence indices are 0-based as in the source.    *)
(***************************************************************************)
EXTENDS Integers, Sequences, FiniteSets, TLC

\* ------------------------------------------------------------- bounds ----
MaxTime == 3            \* audio positions 0..MaxTime are distinguished
MaxFallback == 1        \* pending 5-second fallback timeouts
MaxSpeechRun == 3       \* speechCount is followed up to this value
MaxFetches == 2         \* TTS requests in flight
MaxSpeechPending == 1   \* expo-speech completions not yet delivered
MaxOrphans == 1         \* playing TTS sounds no longer held by TTSService

\* -------------------------------------------------- program constants ----
silenceThreshold == 8
speechThreshold == 3
paddingMs == 200

\* The transcript the session is run on: start and duration in seconds.
\* Its last two sentences have the same start time.
Transcripts ==
  { << [start |-> 0, duration |-> 1], [start |-> 1, duration |-> 1],
       [start |-> 1, duration |-> 2] >> }

Platforms == {"web", "native"}

\* The videos practised
VideoIds == {"abc", "xyz"}

\* What a provider may answer as data.sentences: nothing, an ordered list,
\* a list out of order, a sentence that ends before it starts.
ProviderSentences ==
  { << >>,
    << [start |-> 0, end |-> 1, duration |-> 1],
       [start |-> 1, end |-> 3, duration |-> 2] >>,
    << [start |-> 1, end |-> 3, duration |-> 2],
       [start |-> 0, end |-> 1, duration |-> 1] >>,
    << [start |-> 2, end |-> 1, duration |-> -1] >> }
Modes == {"none", "tts", "original"}

VARIABLES
  platform,              \* Platform.OS
  sentences,             \* the loaded transcript
  \* ---- ScriptPracticeScreen
  mounted,               \* the screen and its AudioPlayer are mounted
  currentSentenceIndex, isPlaying, isAutoPlay, isAudioPlaying, playbackMode,
  isTTSPlaying, isGlobalPlaying,
  audioPlayerRef,        \* audioPlayerRef.current is set
  sentenceTimerRef,      \* the pending stop timer: {} or {[idx, ap, delay]}
  advanceTimers,         \* pending 500 ms auto-advance timeouts (next index)
  \* ---- AudioPlayer
  audioPlaying,          \* the audio element / sound is playing
  currentTime,           \* its position
  sourceAttached,        \* a MediaElementSource was created for the element
  playerIsPlaying,       \* the player's isPlaying state
  sentenceEndTime,       \* {} or {t}
  endCheckInterval,      \* {} or {captured sentenceEndTime}
  vadIntervalRef,        \* {} or {[cap, silenceCount, speechCount]}: the
                         \* interval with the values its callback keeps
  audioContextRef, analyserRef,
  unheldContext,         \* an AudioContext is open that no ref holds
  onSilenceDetectedRef,  \* {} or {[idx, ap]}: the orchestrator's callback
  playPromise,           \* {} or {[cb, cap]}: audio.play() not yet settled
  fallbackTimers,        \* pending 5-second fallback timeouts
  \* ---- TTSService
  speechPending,         \* expo-speech completions not yet delivered
  ttsFetches,            \* speakWithOpenAI requests in flight
  sound,                 \* this.sound is set (and playing)
  orphanSounds,          \* playing sounds this.sound no longer refers to
  \* ---- observation
  ev                     \* what the last step did: [op, cb]

VARIABLES
  \* ---- whisperService / loadTranscript
  sourceCache,           \* the module's Map: videoId -> youtube | whisper
  videoId,               \* the videoId of the call of getTranscriptData
  preferredSource,       \* sourceCache.get(videoId) read by that call
  rpc,                   \* where getTranscriptData stands
  awaiting,              \* the request the call is suspended on
  calls,                 \* the requests of the call: [req, out, data]
  probeTimer,            \* getWhisperFromCache's abort timeout is pending
  probeLate,             \* 5000 ms have passed since the probe started
  result,                \* {} or {the TranscriptResult returned}
  error,                 \* {} or {the message of the Error thrown}
  transcriptError        \* {} or {the user message loadTranscript chose}

resolverVars ==
  << sourceCache, videoId, preferredSource, rpc, awaiting, calls, probeTimer,
     probeLate, result, error, transcriptError >>

stateVars ==
  << mounted, currentSentenceIndex, isPlaying, isAutoPlay, isAudioPlaying, playbackMode,
     isTTSPlaying, isGlobalPlaying, audioPlayerRef,
     sentenceTimerRef, advanceTimers, audioPlaying, currentTime,
     sourceAttached, playerIsPlaying, sentenceEndTime, endCheckInterval,
     vadIntervalRef, audioContextRef, analyserRef, unheldContext,
     onSilenceDetectedRef, playPromise, fallbackTimers, speechPending,
     ttsFetches, sound, orphanSounds >>

vars == << platform, sentences, stateVars, ev, resolverVars >>

\* The mutable state as one record, so that the handlers compose.
W ==
  [ mounted |-> mounted,
    currentSentenceIndex |-> currentSentenceIndex, isPlaying |-> isPlaying,
    isAutoPlay |-> isAutoPlay, isAudioPlaying |-> isAudioPlaying,
    playbackMode |-> playbackMode, isTTSPlaying |-> isTTSPlaying,
    isGlobalPlaying |-> isGlobalPlaying,
    audioPlayerRef |-> audioPlayerRef, sentenceTimerRef |-> sentenceTimerRef,
    advanceTimers |-> advanceTimers, audioPlaying |-> audioPlaying,
    currentTime |-> currentTime, sourceAttached |-> sourceAttached,
    playerIsPlaying |-> playerIsPlaying, sentenceEndTime |-> sentenceEndTime,
    endCheckInterval |-> endCheckInterval, vadIntervalRef |-> vadIntervalRef,
    audioContextRef |-> audioContextRef, analyserRef |-> analyserRef,
    unheldContext |-> unheldContext,
    onSilenceDetectedRef |-> onSilenceDetectedRef, playPromise |-> playPromise,
    fallbackTimers |-> fallbackTimers, speechPending |-> speechPending,
    ttsFetches |-> ttsFetches, sound |-> sound, orphanSounds |-> orphanSounds ]

\* ev records the operation of the step (op) and whether the orchestrator's
\* sentence-end handler (the silence callback or the stop timer's body) ran
\* in it (cb).
Commit(w, op, cb) ==
  /\ mounted' = w.mounted
  /\ currentSentenceIndex' = w.currentSentenceIndex
  /\ isPlaying' = w.isPlaying
  /\ isAutoPlay' = w.isAutoPlay
  /\ isAudioPlaying' = w.isAudioPlaying
  /\ playbackMode' = w.playbackMode
  /\ isTTSPlaying' = w.isTTSPlaying
  /\ isGlobalPlaying' = w.isGlobalPlaying
  /\ audioPlayerRef' = w.audioPlayerRef
  /\ sentenceTimerRef' = w.sentenceTimerRef
  /\ advanceTimers' = w.advanceTimers
  /\ audioPlaying' = w.audioPlaying
  /\ currentTime' = w.currentTime
  /\ sourceAttached' = w.sourceAttached
  /\ playerIsPlaying' = w.playerIsPlaying
  /\ sentenceEndTime' = w.sentenceEndTime
  /\ endCheckInterval' = w.endCheckInterval
  /\ vadIntervalRef' = w.vadIntervalRef
  /\ audioContextRef' = w.audioContextRef
  /\ analyserRef' = w.analyserRef
  /\ unheldContext' = w.unheldContext
  /\ onSilenceDetectedRef' = w.onSilenceDetectedRef
  /\ playPromise' = w.playPromise
  /\ fallbackTimers' = w.fallbackTimers
  /\ speechPending' = w.speechPending
  /\ ttsFetches' = w.ttsFetches
  /\ sound' = w.sound
  /\ orphanSounds' = w.orphanSounds
  /\ ev' = [op |-> op, cb |-> cb]
  /\ UNCHANGED << platform, sentences, resolverVars >>


lastIndex == Len(sentences) - 1
sentenceAt(i) == sentences[i + 1]

\* ===================================================== AudioPlayer.tsx ====

\* HTMLAudioElement.pause(): when the element is playing it stops, the
\* 'pause' event runs audio.onpause (setIsPlaying(false)) and a play()
\* promise that is still pending is rejected (its catch only logs).
audioPause(w) ==
  IF w.audioPlaying
    THEN [w EXCEPT !.audioPlaying = FALSE, !.playerIsPlaying = FALSE,
                   !.playPromise = {}]
    ELSE w

\* HTMLAudioElement.play(): ok, the element plays, the 'play' event runs
\* audio.onplay (setIsPlaying(true)) and the promise p is pending; not ok,
\* the promise is rejected and the catch only logs.
audioPlay(w, p, ok) ==
  IF ok
    THEN [w EXCEPT !.audioPlaying = TRUE, !.playerIsPlaying = TRUE,
                   !.playPromise = {p}]
    ELSE w

stopVoiceActivityDetection(w) ==
  [w EXCEPT !.vadIntervalRef = {}, !.audioContextRef = FALSE,
            !.analyserRef = FALSE, !.onSilenceDetectedRef = {}]

\* How the set-up of the analysis graph ends: the AudioContext cannot be
\* created (outer catch: 5-second fallback), the element already has a
\* source node (inner catch: return, the AudioContext just created is held
\* by no ref), or the sampling interval is started.
vadOutcome(w, ctxOk) ==
  IF ~ctxOk THEN "vadFallback"
  ELSE IF w.sourceAttached THEN "vadSkipped"
  ELSE "vadRunning"

\* startVoiceActivityDetection on the web; cap is the isPlaying value of the
\* render the function belongs to, which its interval callback keeps.
startVoiceActivityDetection(w, cb, cap, ctxOk) ==
  LET w1 == [stopVoiceActivityDetection(w) EXCEPT !.onSilenceDetectedRef = {cb}]
  IN CASE vadOutcome(w, ctxOk) = "vadFallback" ->
            [w1 EXCEPT !.fallbackTimers = @ + 1]
       [] vadOutcome(w, ctxOk) = "vadSkipped" ->
            [w1 EXCEPT !.unheldContext = TRUE]
       [] OTHER ->
            [w1 EXCEPT !.sourceAttached = TRUE, !.audioContextRef = TRUE,
                       !.analyserRef = TRUE,
                       !.vadIntervalRef = {[cap |-> cap, silenceCount |-> 0,
                                            speechCount |-> 0]}]

\* WebAudioPlayer handle: pause
webPause(w) ==
  [stopVoiceActivityDetection(audioPause(w))
     EXCEPT !.playerIsPlaying = FALSE, !.sentenceEndTime = {},
            !.endCheckInterval = {}]

\* WebAudioPlayer handle: playWithVAD(onSilenceDetected, endTime)
playWithVAD(w, cb, endTime, ok) ==
  LET cap == w.playerIsPlaying
      w1 == IF cap
              THEN [stopVoiceActivityDetection(audioPause(w))
                      EXCEPT !.endCheckInterval = {}]
              ELSE w
      w2 == IF endTime # 0
              THEN [w1 EXCEPT !.sentenceEndTime = {endTime},
                              !.endCheckInterval = {w.sentenceEndTime}]
              ELSE w1
  IN audioPlay(w2, [cb |-> cb, cap |-> cap], ok)

\* NativeAudioPlayer handle: play and pause (ok: the sound is loaded and
\* playAsync succeeds)
nativePlay(w, ok) ==
  IF ok THEN [w EXCEPT !.audioPlaying = TRUE, !.playerIsPlaying = TRUE] ELSE w

nativePause(w) == [w EXCEPT !.audioPlaying = FALSE, !.playerIsPlaying = FALSE]

\* audioPlayerRef.current.pause()
playerPause(w) == IF platform = "web" THEN webPause(w) ELSE nativePause(w)

\* audioPlayerRef.current.seekTo(t)
seekTo(w, t) == [w EXCEPT !.currentTime = t]


\* ========================================================== ttsService ====

\* TTSService.stop(): the held sound is stopped and unloaded, and
\* Speech.stop() cancels expo-speech.
ttsStop(w) == [w EXCEPT !.sound = FALSE]

\* speakSentence(text): the flags are set, expo-speech is started, and
\* speakWithOpenAI starts by calling this.stop(), which cancels the
\* utterance just queued (its onStopped completion is delivered later),
\* and then sends the request.
speakSentence(w) ==
  [ttsStop(w) EXCEPT !.isTTSPlaying = TRUE, !.isGlobalPlaying = TRUE,
                     !.speechPending = @ + 1, !.ttsFetches = @ + 1]

canSpeak(w) == w.speechPending < MaxSpeechPending /\ w.ttsFetches < MaxFetches

\* ================================================ ScriptPracticeScreen ====

\* sentences.findIndex(s => s.start === sentence.start)
findIndex(i) ==
  CHOOSE j \in 0..lastIndex :
    /\ sentenceAt(j).start = sentenceAt(i).start
    /\ \A k \in 0..(j - 1) : sentenceAt(k).start # sentenceAt(i).start

\* autoAdvance that also moves the current index forward
autoAdvance_incrementsIndex(w, i) ==
  IF findIndex(i) < lastIndex
    THEN [w EXCEPT !.advanceTimers = @ \cup {findIndex(i) + 1},
                   !.currentSentenceIndex = @ + 1]
    ELSE w

\* The auto-advance step shared by the silence callback and the stop timer:
\* the next sentence is scheduled 500 ms later.
autoAdvance(w, i) ==
  IF findIndex(i) < lastIndex
    THEN [w EXCEPT !.advanceTimers = @ \cup {findIndex(i) + 1}]
    ELSE w

\* The callback playSentenceOnly passes to playWithVAD; cb.ap is the
\* isAutoPlay value of the render playSentenceOnly belongs to.
onSilenceDetected(w, cb) ==
  LET w1 == [w EXCEPT !.isPlaying = FALSE]
  IN IF cb.ap THEN autoAdvance(w1, cb.idx) ELSE w1

\* playSentenceOnly(sentences[i]) of a render whose isAutoPlay is ap
playSentenceOnly(w, i, ap, ok) ==
  IF ~w.audioPlayerRef THEN w
  ELSE
    LET w1 == seekTo([w EXCEPT !.isPlaying = TRUE], sentenceAt(i).start)
        endTime == sentenceAt(i).start + sentenceAt(i).duration
    IN IF platform = "web"
         THEN playWithVAD(w1, [idx |-> i, ap |-> ap], endTime, ok)
         ELSE [nativePlay(w1, ok)
                 EXCEPT !.sentenceTimerRef =
                          {[idx |-> i, ap |-> ap,
                            delay |-> sentenceAt(i).duration * 1000
                                        + paddingMs]}]

\* The stop timer's callback (setTimeout in playSentenceOnly)
stopTimerBody(w, t) ==
  IF w.audioPlayerRef
    THEN LET w1 == [playerPause(w) EXCEPT !.isPlaying = FALSE]
         IN IF t.ap THEN autoAdvance(w1, t.idx) ELSE w1
    ELSE w

\* startAutoPlay() of a render whose isAutoPlay is ap.  handleAutoPlay calls
\* it right after setIsAutoPlay(true), in the render where isAutoPlay is
\* still false, and its only other call is inside its own timeout: the
\* scheduling branch is therefore never taken and has no pending timer in
\* the state.
startAutoPlay(w, ap) ==
  IF ~ap \/ w.currentSentenceIndex >= Len(sentences)
    THEN [w EXCEPT !.isGlobalPlaying = FALSE]
    ELSE w

\* toggleGlobalPlayback, pause branch
pauseBranch(w) ==
  LET w1 == IF w.isTTSPlaying
              THEN [ttsStop(w) EXCEPT !.isTTSPlaying = FALSE] ELSE w
      w2 == IF w1.isAudioPlaying /\ w1.audioPlayerRef
              THEN [playerPause(w1) EXCEPT !.isAudioPlaying = FALSE] ELSE w1
  IN [w2 EXCEPT !.isAutoPlay = FALSE, !.sentenceTimerRef = {},
                !.isGlobalPlaying = FALSE]

\* toggleGlobalPlayback, play branch
playBranch(w, ok) ==
  LET w1 == [w EXCEPT !.isGlobalPlaying = TRUE]
      i == w.currentSentenceIndex
  IN CASE w.playbackMode = "tts" -> speakSentence(w1)
       [] w.playbackMode = "original" ->
            playSentenceOnly(w1, i, w.isAutoPlay, ok)
       [] OTHER ->
            playSentenceOnly([w1 EXCEPT !.playbackMode = "original"], i,
                             w.isAutoPlay, ok)

\* handleSentencePress, when something is playing: stop it and return
pressStop(w) ==
  LET w1 == IF w.audioPlayerRef
              THEN [playerPause(w) EXCEPT !.isPlaying = FALSE] ELSE w
  IN [ttsStop(w1) EXCEPT !.isTTSPlaying = FALSE]

\* handleSentencePress, when nothing is playing; with no mode selected the
\* mode alert is shown (and hidden 3 seconds later) and nothing else is done
pressPlay(w, index, ok) ==
  LET w1 == [w EXCEPT !.currentSentenceIndex = index]
      w2 == [w1 EXCEPT !.sentenceTimerRef = {}]
  IN CASE w.playbackMode = "none" -> w1
       [] w.playbackMode = "tts" -> speakSentence(ttsStop(w2))
       [] OTHER -> playSentenceOnly(w2, index, w.isAutoPlay, ok)

\* handleAutoPlay, stop branch
autoStop(w) ==
  LET w1 == [w EXCEPT !.isAutoPlay = FALSE, !.isGlobalPlaying = FALSE,
                      !.isPlaying = FALSE, !.isTTSPlaying = FALSE,
                      !.isAudioPlaying = FALSE]
      w2 == IF w.audioPlayerRef THEN playerPause(w1) ELSE w1
      w3 == IF w.isTTSPlaying THEN ttsStop(w2) ELSE w2
  IN [w3 EXCEPT !.sentenceTimerRef = {}]

\* handleAutoPlay, start branch
autoStart(w) ==
  LET w1 == [w EXCEPT !.isAutoPlay = TRUE,
                      !.playbackMode =
                         IF @ = "none" THEN "original" ELSE @]
  IN startAutoPlay(w1, w.isAutoPlay)


\* countTick with the stability check left out: any Speech tick resets
\* silenceCount.
countTick_noStability(v, isSpeech) ==
  IF isSpeech
    THEN [v EXCEPT !.speechCount = @ + 1, !.silenceCount = 0]
    ELSE [v EXCEPT !.speechCount = 0, !.silenceCount = @ + 1]

\* The counters after one tick classified isSpeech
countTick(v, isSpeech) ==
  IF isSpeech
    THEN [v EXCEPT !.speechCount = @ + 1,
                   !.silenceCount =
                      IF v.speechCount + 1 >= speechThreshold THEN 0 ELSE @]
    ELSE [v EXCEPT !.speechCount = 0, !.silenceCount = @ + 1]

\* The sampling interval's callback for one tick classified isSpeech; v is
\* the interval with its counters.
vadTick(w, v, isSpeech) ==
  LET v1 == countTick(v, isSpeech)
      w1 == [w EXCEPT !.vadIntervalRef = {v1}]
  IN IF ~isSpeech /\ v1.silenceCount >= silenceThreshold
       THEN LET w2 == stopVoiceActivityDetection(w1)
            IN IF w2.onSilenceDetectedRef # {}
                 THEN onSilenceDetected(w2,
                        CHOOSE c \in w2.onSilenceDetectedRef : TRUE)
                 ELSE w2
       ELSE w1

\* Whether that tick invokes the callback
vadTickFires(w, v, isSpeech) ==
  /\ ~isSpeech
  /\ countTick(v, isSpeech).silenceCount >= silenceThreshold
  /\ stopVoiceActivityDetection(w).onSilenceDetectedRef # {}

\* checkAndStopAtSentenceEnd of the render that started the interval;
\* capEnd is that render's sentenceEndTime.
checkAndStopAtSentenceEnd(w, capEnd) ==
  IF capEnd # {} /\ (\A t \in capEnd : w.currentTime >= t)
    THEN [stopVoiceActivityDetection(audioPause(w))
            EXCEPT !.playerIsPlaying = FALSE, !.sentenceEndTime = {},
                   !.endCheckInterval = {}]
    ELSE w

\* The 5-second fallback timeout's callback
fallbackBody(w) ==
  IF w.onSilenceDetectedRef # {}
    THEN onSilenceDetected(w, CHOOSE c \in w.onSilenceDetectedRef : TRUE)
    ELSE w

\* The screen unmounts and its AudioPlayer with it.  The screen's effect
\* cleanup clears the stop timer; React clears audioPlayerRef.current; the
\* web player's cleanups clear the ceiling-check interval and pause the
\* element.  The native player's cleanup belongs to the first render, in
\* which sound is null: it unloads nothing.
unmount(w) ==
  LET w1 == [w EXCEPT !.mounted = FALSE, !.sentenceTimerRef = {},
                      !.audioPlayerRef = FALSE]
  IN IF platform = "web"
       THEN [audioPause(w1) EXCEPT !.endCheckInterval = {}]
       ELSE w1

\* ============================================================= actions ====

\* The screen's state and the players' after mounting
InitScreen ==
  /\ mounted = TRUE
  /\ currentSentenceIndex = 0
  /\ isPlaying = FALSE /\ isAutoPlay = FALSE /\ isAudioPlaying = FALSE
  /\ playbackMode = "none"
  /\ isTTSPlaying = FALSE /\ isGlobalPlaying = FALSE
  /\ audioPlayerRef = FALSE
  /\ sentenceTimerRef = {} /\ advanceTimers = {}
  /\ audioPlaying = FALSE /\ currentTime = 0 /\ sourceAttached = FALSE
  /\ playerIsPlaying = FALSE /\ sentenceEndTime = {} /\ endCheckInterval = {}
  /\ vadIntervalRef = {}
  /\ audioContextRef = FALSE /\ analyserRef = FALSE /\ unheldContext = FALSE
  /\ onSilenceDetectedRef = {} /\ playPromise = {} /\ fallbackTimers = 0
  /\ speechPending = 0 /\ ttsFetches = 0 /\ sound = FALSE /\ orphanSounds = 0
  /\ ev = [op |-> "init", cb |-> FALSE]

\* whisperService after module load: the source cache is empty and no call
\* of getTranscriptData is in progress
InitResolver ==
  /\ sourceCache = [v \in VideoIds |-> "none"]
  /\ videoId = "abc" /\ preferredSource = "none"
  /\ rpc = "idle" /\ awaiting = "none" /\ calls = << >>
  /\ probeTimer = FALSE /\ probeLate = FALSE
  /\ result = {} /\ error = {} /\ transcriptError = {}

\* The practice session: the transcript has been loaded
Init ==
  /\ platform \in Platforms
  /\ sentences \in Transcripts
  /\ InitScreen
  /\ InitResolver

\* loadAudio succeeded: the AudioPlayer is rendered and the ref is set
LoadAudio ==
  /\ mounted /\ ~audioPlayerRef
  /\ Commit([W EXCEPT !.audioPlayerRef = TRUE], "loadAudio", FALSE)

\* A TTS mode button that also pauses the audio player
SelectTTS_pausesAudio ==
  mounted /\ Commit([playerPause(W) EXCEPT !.playbackMode = "tts"], "selectMode", FALSE)

\* The TTS and Original mode buttons
SelectTTS ==
  mounted /\ Commit([W EXCEPT !.playbackMode = "tts"], "selectMode", FALSE)

SelectOriginal ==
  mounted /\ Commit([W EXCEPT !.playbackMode = "original"], "selectMode", FALSE)

\* toggleGlobalPlayback while isGlobalPlaying
TogglePause ==
  /\ mounted /\ isGlobalPlaying
  /\ Commit(pauseBranch(W), "togglePause", FALSE)

\* toggleGlobalPlayback while not isGlobalPlaying
TogglePlay ==
  /\ mounted /\ ~isGlobalPlaying
  /\ playbackMode = "tts" => canSpeak(W)
  /\ \E ok \in BOOLEAN : Commit(playBranch(W, ok), "togglePlay", FALSE)

\* handleSentencePress(index) while a sentence is playing
PressStop ==
  /\ mounted
  /\ isPlaying \/ isTTSPlaying
  /\ Commit(pressStop(W), "pressStop", FALSE)

\* handleSentencePress(index) while nothing is playing
PressPlay ==
  /\ mounted
  /\ ~(isPlaying \/ isTTSPlaying)
  /\ playbackMode = "tts" => canSpeak(W)
  /\ \E index \in 0..lastIndex, ok \in BOOLEAN :
       Commit(pressPlay(W, index, ok),
              IF playbackMode = "none" THEN "modeAlert" ELSE "pressPlay",
              FALSE)

\* handleAutoPlay while isAutoPlay
AutoStop ==
  /\ mounted /\ isAutoPlay
  /\ Commit(autoStop(W), "autoStop", FALSE)

\* handleAutoPlay while not isAutoPlay
AutoStart ==
  /\ mounted /\ ~isAutoPlay
  /\ Commit(autoStart(W), "autoStart", FALSE)

\* The stop timer fires
StopTimerFires ==
  \E t \in sentenceTimerRef :
    Commit(stopTimerBody([W EXCEPT !.sentenceTimerRef = {}], t),
           "stopTimer", audioPlayerRef)

\* An auto-advance timeout fires: playSentenceOnly(sentences[n]) of the
\* render that scheduled it, in which isAutoPlay is true
AdvanceFires ==
  \E n \in advanceTimers, ok \in BOOLEAN :
    Commit(playSentenceOnly([W EXCEPT !.advanceTimers = @ \ {n}], n, TRUE, ok),
           "advance", FALSE)

\* audio.play() of playWithVAD resolves: setIsPlaying(true) and the
\* detector is started
PlayResolved ==
  \E p \in playPromise, ctxOk \in BOOLEAN :
    /\ ~ctxOk => fallbackTimers < MaxFallback
    /\ Commit(startVoiceActivityDetection(
                [W EXCEPT !.playPromise = {}, !.playerIsPlaying = TRUE],
                p.cb, p.cap, ctxOk),
              "playResolved", FALSE)

\* One 100 ms tick of the sampling interval.  The callback returns at once
\* when analyserRef is null or the captured isPlaying is false.
VadTick ==
  \E v \in vadIntervalRef, isSpeech \in BOOLEAN :
    /\ analyserRef /\ v.cap
    /\ isSpeech => v.speechCount < MaxSpeechRun
    /\ Commit(vadTick(W, v, isSpeech),
              IF isSpeech THEN "speechTick" ELSE "silenceTick",
              vadTickFires(W, v, isSpeech))

\* A tick of the ceiling-check interval that stops the audio
EndCheckTick ==
  \E capEnd \in endCheckInterval :
    /\ checkAndStopAtSentenceEnd(W, capEnd) # W
    /\ Commit(checkAndStopAtSentenceEnd(W, capEnd), "endCheck", FALSE)

\* A 5-second fallback timeout fires
FallbackFires ==
  /\ fallbackTimers > 0
  /\ Commit(fallbackBody([W EXCEPT !.fallbackTimers = @ - 1]),
            "fallback", onSilenceDetectedRef # {})

\* The media reaches its end: the element pauses itself and the 'pause'
\* event runs audio.onpause (setIsPlaying(false))
AudioEnded ==
  /\ audioPlaying /\ currentTime = MaxTime
  /\ Commit([W EXCEPT !.audioPlaying = FALSE, !.playerIsPlaying = FALSE],
            "ended", FALSE)

\* The learner leaves the practice screen
Unmount ==
  /\ mounted
  /\ Commit(unmount(W), "unmount", FALSE)

\* The audio plays on for a second
AudioAdvance ==
  /\ audioPlaying
  /\ currentTime < MaxTime
  /\ Commit([W EXCEPT !.currentTime = @ + 1], "time", FALSE)

\* expo-speech delivers onStopped: speakSentence's then() clears the flags
SpeechStopped ==
  /\ speechPending > 0
  /\ Commit([W EXCEPT !.speechPending = @ - 1, !.isTTSPlaying = FALSE,
                      !.isGlobalPlaying = FALSE],
            "speechStopped", FALSE)

\* A speakWithOpenAI request completes: on success the sound is created
\* playing and stored in this.sound, whatever this.sound held
TtsFetchDone ==
  /\ ttsFetches > 0
  /\ \E ok \in BOOLEAN :
       /\ (ok /\ sound) => orphanSounds < MaxOrphans
       /\ Commit(IF ok
                   THEN [W EXCEPT !.ttsFetches = @ - 1, !.sound = TRUE,
                                  !.orphanSounds = IF sound THEN @ + 1 ELSE @]
                   ELSE [W EXCEPT !.ttsFetches = @ - 1],
                 "fetchDone", FALSE)

\* The held sound finishes: cleanup() unloads it and clears this.sound
SoundFinished ==
  /\ sound
  /\ Commit([W EXCEPT !.sound = FALSE], "soundFinished", FALSE)

\* A sound no longer held finishes: its status callback calls cleanup(),
\* which unloads whatever this.sound holds now
OrphanFinished ==
  /\ orphanSounds > 0
  /\ Commit([W EXCEPT !.orphanSounds = @ - 1, !.sound = FALSE],
            "orphanFinished", FALSE)

\* ====================================================== whisperService ====

\* The call of getTranscriptData and the module state as one record
R ==
  [ sourceCache |-> sourceCache, videoId |-> videoId,
    preferredSource |-> preferredSource, rpc |-> rpc, awaiting |-> awaiting,
    calls |-> calls, probeTimer |-> probeTimer, probeLate |-> probeLate,
    result |-> result, error |-> error ]

CommitR(r) ==
  /\ sourceCache' = r.sourceCache
  /\ videoId' = r.videoId
  /\ preferredSource' = r.preferredSource
  /\ rpc' = r.rpc
  /\ awaiting' = r.awaiting
  /\ calls' = r.calls
  /\ probeTimer' = r.probeTimer
  /\ probeLate' = r.probeLate
  /\ result' = r.result
  /\ error' = r.error

\* An Error message is kept as the set of the phrases it contains among
\* those the code tests with includes().
includes(message, phrase) == phrase \in message

\* 'Failed to get transcript: Network connection failed. Please check your
\* internet connection and try again.'
NetworkMessage == {"network", "connection"}

\* 'Failed to get transcript: Both YouTube subtitles and Whisper AI are
\* unavailable for this video. Please try a different video or check your
\* connection.'
BothFailedMessage == {"both youtube subtitles and whisper", "connection"}

\* 'No transcript data available'
NoDataMessage == {}

\* A request is issued: it is appended to the call's requests
request(r, req) ==
  [r EXCEPT !.awaiting = req,
            !.calls = Append(@, [req |-> req, out |-> "pending",
                                 data |-> << >>])]

\* The request the call is suspended on settles
settle(r, out, data) ==
  [r EXCEPT !.awaiting = "none",
            !.calls[Len(r.calls)] = [@ EXCEPT !.out = out, !.data = data]]

\* getYouTubeSubtitles(videoId, true) is called
beginCaptions(r) == request(r, "captions")

\* transcribeWithWhisper(videoId) is called: it starts with
\* getWhisperFromCache, which arms the 5000 ms abort timeout and fetches
beginWhisper(r) ==
  [request(r, "probe") EXCEPT !.probeTimer = TRUE, !.probeLate = FALSE]

\* entry with every known preference sent to the transcription branch
entry_whisperFirst(pref) ==
  IF pref = "none" THEN "step1" ELSE "prefWhisper"

\* The branch getTranscriptData takes for the preferred source it read
entry(pref) ==
  CASE pref = "whisper" -> "prefWhisper"
    [] pref = "youtube" -> "prefYoutube"
    [] OTHER -> "step1"

\* getTranscriptData(v) up to its first await
getTranscriptData(r, v) ==
  LET pref == r.sourceCache[v]
      r1 == [r EXCEPT !.videoId = v, !.preferredSource = pref,
                      !.rpc = entry(pref), !.calls = << >>,
                      !.result = {}, !.error = {}]
  IN IF entry(pref) = "prefWhisper" THEN beginWhisper(r1)
                                    ELSE beginCaptions(r1)

\* whisperResult labelled with the caption source
whisperResult_asCaption(s) == [source |-> "youtube", sentences |-> s]

youtubeResult(s) == [source |-> "youtube", sentences |-> s]
whisperResult(s) == [source |-> "whisper", sentences |-> s]

\* returned without recording the source
returned_noRecord(r, res) ==
  [r EXCEPT !.rpc = "returned", !.result = {res}]

\* getTranscriptData returns res: the preferred-source branches return it
\* as it is, steps 1 and 2 first record its source in sourceCache
returned(r, res) ==
  [r EXCEPT !.rpc = "returned", !.result = {res},
            !.sourceCache[r.videoId] =
               IF r.rpc \in {"step1", "step2"} THEN res.source ELSE @]

\* getYouTubeSubtitles threw, or its result has no sentences
captionsFailed(r) ==
  IF r.rpc = "prefYoutube"
    THEN beginCaptions([r EXCEPT !.rpc = "step1"])
    ELSE beginWhisper([r EXCEPT !.rpc = "step2"])

\* whisperFailed throwing from the preferred-source branch too
whisperFailed_noBackup(r, net) ==
  [r EXCEPT !.rpc = "threw",
            !.error = {IF net THEN NetworkMessage ELSE BothFailedMessage}]

\* transcribeWithWhisper threw; net: the message includes
\* 'Network request failed'
whisperFailed(r, net) ==
  IF r.rpc = "prefWhisper"
    THEN beginCaptions([r EXCEPT !.rpc = "step1"])
    ELSE [r EXCEPT !.rpc = "threw",
                   !.error = {IF net THEN NetworkMessage
                                     ELSE BothFailedMessage}]

\* getWhisperFromCache returned null: transcribeWithWhisper goes on to
\* extractAudio
probeMiss(r) == request(r, "extract")

\* The user message loadTranscript chooses for an Error message
userMessage(message) ==
  CASE \/ includes(message, "no english subtitles")
       \/ includes(message, "no subtitles available")
       \/ includes(message, "no english captions") -> "noSubtitles"
    [] \/ includes(message, "video not accessible")
       \/ includes(message, "private")
       \/ includes(message, "age-restricted") -> "notAccessible"
    [] \/ includes(message, "network")
       \/ includes(message, "connection") -> "network"
    [] includes(message, "both youtube subtitles and whisper") -> "bothFailed"
    [] OTHER -> "generic"

\* result.sentences.map(...) of loadTranscript: the fields are copied
practiceSentences(s) ==
  [i \in 1..Len(s) |->
     [start |-> s[i].start, end |-> s[i].end, duration |-> s[i].duration]]

\* ------------------------------------------------- resolver actions ----

resolverRest == UNCHANGED << platform, stateVars, ev >>

\* The screen mounts for video v and loadTranscript calls getTranscriptData
LoadTranscript ==
  /\ rpc = "idle"
  /\ \E v \in VideoIds : CommitR(getTranscriptData(R, v))
  /\ sentences' = << >> /\ transcriptError' = {}
  /\ resolverRest

\* getYouTubeSubtitles settles: it throws, or returns data.sentences
CaptionsDone ==
  /\ awaiting = "captions"
  /\ \/ CommitR(captionsFailed(settle(R, "fail", << >>)))
     \/ \E s \in ProviderSentences :
          IF Len(s) > 0
            THEN CommitR(returned(settle(R, "ok", s), youtubeResult(s)))
            ELSE CommitR(captionsFailed(settle(R, "fail", s)))
  /\ UNCHANGED << sentences, transcriptError >> /\ resolverRest

\* The probe's response headers arrive before the timeout: clearTimeout;
\* a response that is not ok is a miss
ProbeHeaders ==
  /\ awaiting = "probe" /\ probeTimer
  /\ \E ok \in BOOLEAN :
       CommitR(IF ok
                 THEN [R EXCEPT !.awaiting = "probeBody",
                                !.probeTimer = FALSE]
                 ELSE probeMiss([settle(R, "fail", << >>)
                                   EXCEPT !.probeTimer = FALSE]))
  /\ UNCHANGED << sentences, transcriptError >> /\ resolverRest

\* The 5000 ms timeout fires while the fetch is pending: abort, the
\* AbortError is caught and the probe returns null
ProbeTimeout ==
  /\ awaiting = "probe" /\ probeTimer
  /\ CommitR(probeMiss([settle(R, "fail", << >>)
                          EXCEPT !.probeTimer = FALSE, !.probeLate = TRUE]))
  /\ UNCHANGED << sentences, transcriptError >> /\ resolverRest

\* The probe's fetch rejects: caught, the probe returns null (the timeout
\* later aborts a request that has settled, which does nothing)
ProbeFetchFails ==
  /\ awaiting = "probe" /\ probeTimer
  /\ CommitR(probeMiss([settle(R, "error", << >>)
                          EXCEPT !.probeTimer = FALSE]))
  /\ UNCHANGED << sentences, transcriptError >> /\ resolverRest

\* 5000 ms have passed since the probe started, after clearTimeout
DeadlinePasses ==
  /\ awaiting = "probeBody" /\ ~probeLate
  /\ CommitR([R EXCEPT !.probeLate = TRUE])
  /\ UNCHANGED << sentences, transcriptError >> /\ resolverRest

\* The probe's body arrives: cacheResponse.json() gives cachedData and the
\* probe returns the cached result, or it throws and the probe returns null
ProbeBody ==
  /\ awaiting = "probeBody"
  /\ \/ \E s \in ProviderSentences :
          CommitR(returned(settle(R, "ok", s), whisperResult(s)))
     \/ CommitR(probeMiss(settle(R, "fail", << >>)))
  /\ UNCHANGED << sentences, transcriptError >> /\ resolverRest

\* extractAudio settles: the audio locator, or it throws
ExtractDone ==
  /\ awaiting = "extract"
  /\ \/ CommitR(request(settle(R, "ok", << >>), "submit"))
     \/ \E net \in BOOLEAN :
          CommitR(whisperFailed(settle(R, "fail", << >>), net))
  /\ UNCHANGED << sentences, transcriptError >> /\ resolverRest

\* The POST to /whisper/transcribe settles: data.sentences || [], or it
\* throws
SubmitDone ==
  /\ awaiting = "submit"
  /\ \/ \E s \in ProviderSentences :
          CommitR(returned(settle(R, "ok", s), whisperResult(s)))
     \/ \E net \in BOOLEAN :
          CommitR(whisperFailed(settle(R, "fail", << >>), net))
  /\ UNCHANGED << sentences, transcriptError >> /\ resolverRest

\* loadTranscript resumes after await getTranscriptData(videoId)
LoadTranscriptSettles ==
  /\ rpc \in {"returned", "threw"}
  /\ rpc' = "idle"
  /\ IF rpc = "returned"
       THEN \E res \in result :
              IF Len(res.sentences) > 0
                THEN /\ sentences' = practiceSentences(res.sentences)
                     /\ UNCHANGED transcriptError
                ELSE /\ transcriptError' = {userMessage(NoDataMessage)}
                     /\ UNCHANGED sentences
       ELSE \E message \in error :
              /\ transcriptError' = {userMessage(message)}
              /\ UNCHANGED sentences
  /\ UNCHANGED << sourceCache, videoId, preferredSource, awaiting, calls,
                  probeTimer, probeLate, result, error >>
  /\ resolverRest

\* The session on a native build: the stop timer ends a sentence.
NextNative ==
  \/ LoadAudio \/ SelectTTS \/ SelectOriginal \/ TogglePause \/ TogglePlay
  \/ PressStop \/ PressPlay \/ AutoStop \/ AutoStart
  \/ StopTimerFires \/ AdvanceFires
  \/ SpeechStopped \/ TtsFetchDone \/ SoundFinished \/ OrphanFinished

InitNative == Init /\ platform = "native"

SpecNative == InitNative /\ [][NextNative]_vars

\* The native session with its timers firing: a timeout that is pending is
\* run by the event loop.
SpecNativeFair ==
  SpecNative /\ WF_vars(StopTimerFires) /\ WF_vars(AdvanceFires)

\* The session on the web build, practised in Original mode: the detector
\* and the ceiling check end a sentence.
NextWeb ==
  \/ LoadAudio \/ SelectOriginal \/ TogglePause \/ TogglePlay
  \/ PressStop \/ PressPlay \/ AutoStop \/ AutoStart
  \/ AdvanceFires \/ PlayResolved \/ VadTick
  \/ EndCheckTick \/ FallbackFires \/ AudioAdvance

InitWeb == Init /\ platform = "web"

SpecWeb == InitWeb /\ [][NextWeb]_vars

\* The web session of a learner who lets the audio play to the end of the
\* media: no auto play, and the sentence buttons and the global button only
NextWebEnded ==
  \/ LoadAudio \/ SelectOriginal \/ TogglePause \/ TogglePlay
  \/ PressStop \/ PressPlay \/ PlayResolved \/ VadTick
  \/ EndCheckTick \/ FallbackFires \/ AudioAdvance \/ AudioEnded

SpecWebEnded == InitWeb /\ [][NextWebEnded]_vars

\* The web session up to and after the learner leaving the screen
NextWebUnmount ==
  \/ LoadAudio \/ SelectOriginal \/ TogglePause \/ TogglePlay
  \/ PressStop \/ PressPlay \/ AutoStop \/ AutoStart
  \/ AdvanceFires \/ PlayResolved \/ VadTick
  \/ EndCheckTick \/ FallbackFires \/ AudioAdvance \/ Unmount

SpecWebUnmount == InitWeb /\ [][NextWebUnmount]_vars

\* Transcript resolution: the screen is mounted for one video after another
NextResolve ==
  \/ LoadTranscript \/ CaptionsDone \/ ProbeHeaders \/ ProbeTimeout
  \/ ProbeFetchFails \/ DeadlinePasses \/ ProbeBody \/ ExtractDone
  \/ SubmitDone \/ LoadTranscriptSettles

InitResolve ==
  /\ platform \in Platforms /\ sentences = << >>
  /\ InitScreen /\ InitResolver

SpecResolve == InitResolve /\ [][NextResolve]_vars


\* ============================================================== claims ====

\* The end-of-sentence triggers that are armed: the stop timer, the detector
\* (its sampling interval and ceiling check, counted as one) and every
\* pending auto-advance timeout.
armedTriggers ==
  (IF sentenceTimerRef # {} THEN 1 ELSE 0)
  + (IF vadIntervalRef # {} \/ endCheckInterval # {} THEN 1 ELSE 0)
  + Cardinality(advanceTimers)

\* C1: in every reachable state at most one end-of-sentence trigger is armed.
C1_AtMostOneTrigger == armedTriggers <= 1


\* pauseAll: the pause branch of toggleGlobalPlayback, or the stop branch of
\* handleAutoPlay, was the last step.
afterPauseAll == ev.op \in {"togglePause", "autoStop"}

\* No timer, interval or unsettled play() is pending.
nothingPending ==
  /\ sentenceTimerRef = {} /\ advanceTimers = {}
  /\ vadIntervalRef = {} /\ endCheckInterval = {}
  /\ fallbackTimers = 0 /\ playPromise = {}

\* C2: pauseAll leaves no pending timer or interval, so that advancing time
\* afterwards changes nothing and starts no playback.
C2_PauseLeavesNothingPending == afterPauseAll => nothingPending

\* C3: pauseAll stops the active backend (the Original audio is paused, TTS
\* is stopped), clears autoAdvance and leaves the session not playing.
C3_PauseAllStopsBackend ==
  afterPauseAll =>
    /\ ~audioPlaying /\ ~sound
    /\ ~isAutoPlay /\ ~isGlobalPlaying /\ ~isPlaying /\ ~isTTSPlaying

\* C4: the Original audio and a TTS sound are never playing at the same time.
C4_SingleBackend == ~(audioPlaying /\ (sound \/ orphanSounds > 0))

\* A cancellation (pause, stopping the playing sentence by a press) was the
\* last step.
afterCancel == ev.op \in {"togglePause", "autoStop", "pressStop"}

\* C5: a cancellation is never followed by the firing of a trigger that was
\* armed before it: the step right after a cancellation is not the stop
\* timer, an auto-advance timeout, or a silence callback.
C5_NoStaleTriggerFires ==
  [][afterCancel =>
       ~(ev'.op \in {"stopTimer", "advance"}
         \/ (ev'.op \in {"fallback", "silenceTick"} /\ ev'.cb))]_vars


\* The last step was the silence tick at which silenceCount reached the
\* threshold: the sampling interval was stopped by it.
thresholdTick == ev.op = "silenceTick" /\ vadIntervalRef = {}

\* C6: when silenceCount reaches the silence threshold, the detector invokes
\* onSilenceDetected at that tick (and stops sampling).
C6_ThresholdInvokesCallback == thresholdTick => ev.cb

\* C7: whichever of silence detection and the ceiling check ends the
\* sentence, the audio is stopped and the orchestrator's sentence-end
\* handler runs for it.
C7_EndStopsAudioAndRunsHandler ==
  (thresholdTick \/ ev.op = "endCheck") => (ev.cb /\ ~audioPlaying)

\* C8: onSilenceDetected is never invoked while the attempt that is armed
\* has counted fewer silent ticks than the threshold.
C8_NoCallbackBelowThreshold ==
  \A v \in vadIntervalRef :
    (ev.cb /\ ev.op \in {"silenceTick", "fallback"})
      => v.silenceCount >= silenceThreshold

\* C9: a Speech tick resets silenceCount to 0 only when speechCount has
\* reached the stability threshold and otherwise leaves it unchanged; a
\* Silence tick adds one to silenceCount and resets speechCount to 0 (at the
\* silence threshold the interval, and its counters with it, is stopped).
C9_TickCounters ==
  [][\A v \in vadIntervalRef :
       /\ ev'.op = "speechTick" =>
            \E v1 \in vadIntervalRef' :
              /\ v1.speechCount = v.speechCount + 1
              /\ v1.silenceCount =
                   IF v1.speechCount >= speechThreshold THEN 0 ELSE v.silenceCount
       /\ ev'.op = "silenceTick" =>
            \/ \E v1 \in vadIntervalRef' :
                 /\ v1.silenceCount = v.silenceCount + 1
                 /\ v1.speechCount = 0
            \/ vadIntervalRef' = {} /\ v.silenceCount + 1 >= silenceThreshold]_vars

\* A speech run of two ticks, shorter than the stability threshold, has left
\* the silent ticks counted before it in place.
C9_Witness ==
  \E v \in vadIntervalRef :
    ev.op = "speechTick" /\ v.speechCount = 2 /\ v.silenceCount = 5

\* C10: whenever a start of the detector ends without the sampling interval
\* (the analysis graph could not be constructed), a 5-second fallback
\* timeout is armed that will invoke the callback.
C10_DegradedStartArmsFallback ==
  (ev.op = "playResolved" /\ vadIntervalRef = {}) => fallbackTimers > 0

\* ------------------------------------------------ transcript resolution --

\* The positions in calls of the requests of the transcription path
transcriptionRequests == {"probe", "extract", "submit"}

\* Request i of the call is preceded by a caption request
afterCaptions(i) == \E j \in 1..(i - 1) : calls[j].req = "captions"

\* C11: when the source cache holds youtube for the video at the call, the
\* caption provider is requested before any cache probe, audio extraction
\* or transcription submission of that call.
C11_CaptionHintTriesCaptionsFirst ==
  preferredSource = "youtube" =>
    \A i \in 1..Len(calls) :
      calls[i].req \in transcriptionRequests => afterCaptions(i)

\* A call with the youtube hint whose captions failed went on to the probe.
C11_Witness ==
  /\ preferredSource = "youtube"
  /\ \E i \in 1..Len(calls) : calls[i].req = "probe"

\* C12: when the source cache holds whisper, the call starts with the cache
\* probe, a hit returns without a caption request, and after a miss or a
\* timeout captions are requested before any audio extraction or
\* transcription submission.
C12_WhisperHintProbeThenCaptions ==
  (preferredSource = "whisper" /\ calls # << >>) =>
    /\ calls[1].req = "probe"
    /\ (calls[1].out = "ok" /\ rpc = "returned") => Len(calls) = 1
    /\ \A i \in 1..Len(calls) :
         calls[i].req \in {"extract", "submit"} => afterCaptions(i)

\* C13: when getTranscriptData has returned a result, the source cache holds
\* the result's source for the video.
C13_CacheHoldsWinningSource ==
  rpc = "returned" => \A res \in result : sourceCache[videoId] = res.source

\* The whisper hint failed and captions won: the cache was rewritten.
C13_Witness ==
  /\ rpc = "returned" /\ preferredSource = "whisper"
  /\ \E res \in result : res.source = "youtube"

\* The caption source and the transcription path were requested and failed
captionsExhausted ==
  \E i \in 1..Len(calls) : calls[i].req = "captions" /\ calls[i].out = "fail"
transcriptionExhausted ==
  \E i \in 1..Len(calls) :
    calls[i].req \in {"extract", "submit"} /\ calls[i].out = "fail"

C15_UserMessageNamesReason ==
  rpc = "idle" =>
    \A message \in error :
      transcriptError =
        {IF message = NetworkMessage THEN "network" ELSE "bothFailed"}

\* C16: a cache probe never returns a hit once 5000 ms have passed since
\* it started.
C16_LateProbeResponseDiscarded ==
  (calls # << >> /\ calls[Len(calls)].req = "probe"
     /\ calls[Len(calls)].out = "ok") => ~probeLate

\* C17: with no hint and no captions, a call that returns after a probe
\* miss has requested captions, probe, extraction and submission in that
\* order, and returns the submitted sentences with source whisper.
C17_UnknownNoCaptionsTranscribes ==
  (rpc = "returned" /\ preferredSource = "none"
     /\ calls[1].out = "fail" /\ calls[2].out # "ok") =>
    /\ [i \in 1..Len(calls) |-> calls[i].req]
         = << "captions", "probe", "extract", "submit" >>
    /\ result = {[source |-> "whisper", sentences |-> calls[4].data]}

\* The scenario: captions fail, the probe times out, the transcription
\* returns sentences.
C17_Witness ==
  /\ rpc = "returned" /\ preferredSource = "none"
  /\ calls[1].out = "fail" /\ calls[2].out = "fail" /\ probeLate
  /\ \E res \in result : Len(res.sentences) = 2

\* Ordered by start time, and no sentence ends before it starts
wellFormed(s) ==
  /\ \A i \in 1..Len(s) : s[i].end >= s[i].start
  /\ \A i \in 1..(Len(s) - 1) : s[i].start <= s[i + 1].start

\* C18: the transcript returned and the screen's sentence list are ordered
\* by start time with end >= start for every sentence.
C18_TranscriptWellFormed ==
  /\ \A res \in result : wellFormed(res.sentences)
  /\ wellFormed(sentences)

\* --------------------------------------------------------- orchestrator --

\* C19: while no playback mode is selected, no play entry point starts a
\* backend or arms a trigger.
C19_NoModeNoPlayback ==
  [][(playbackMode = "none"
        /\ ev'.op \in {"pressPlay", "modeAlert", "togglePlay", "autoStart"}) =>
       /\ audioPlaying' => audioPlaying
       /\ sound' => sound
       /\ speechPending' <= speechPending /\ ttsFetches' <= ttsFetches
       /\ sentenceTimerRef' \subseteq sentenceTimerRef
       /\ advanceTimers' \subseteq advanceTimers]_vars

\* C20: in timer mode a newly armed stop timer has the delay
\* duration * 1000 + 200 and the backend is at the sentence's start; when a
\* timer armed without auto play fires and auto play is off, no playing
\* flag remains set and the current index is unchanged.
C20_TimerModeEndsIdle ==
  [][/\ \A t \in sentenceTimerRef' :
          sentenceTimerRef' # sentenceTimerRef =>
            /\ t.delay = sentenceAt(t.idx).duration * 1000 + 200
            /\ currentTime' = sentenceAt(t.idx).start
     /\ \A t \in sentenceTimerRef :
          (ev'.op = "stopTimer" /\ ev'.cb /\ ~t.ap /\ ~isAutoPlay) =>
            /\ ~isPlaying' /\ ~isGlobalPlaying' /\ ~audioPlaying'
            /\ currentSentenceIndex' = currentSentenceIndex]_vars


\* The steps that enter a play entry point
playOps == {"togglePlay", "pressPlay", "advance"}

\* C21: whenever a step starts a sentence on TTS or on Original without the
\* detector, one stop timer of the sentence's duration plus the 200 ms
\* padding is armed for the sentence after the step.
C21_TimerModeArmsOneTimer ==
  [][(\/ ttsFetches' > ttsFetches
      \/ ev'.op \in playOps /\ playbackMode' = "original" /\ audioPlayerRef) =>
       \E t \in sentenceTimerRef' :
         t.delay = sentenceAt(t.idx).duration * 1000 + paddingMs]_vars

\* C22: when an auto-advance fires, currentSentenceIndex advances by one
\* and the sentence played is the one at the new index.
C22_AdvancePlaysCurrentIndex ==
  [][ev'.op = "advance" =>
       /\ currentSentenceIndex' = currentSentenceIndex + 1
       /\ \A t \in sentenceTimerRef' : t.idx = currentSentenceIndex']_vars

\* C23: after a step in which the end-of-sentence handler ran, the audio is
\* stopped and no stop timer, sampling interval or ceiling-check interval
\* is armed.
C23_HandlerStopsAndDisarms ==
  ev.cb =>
    /\ ~audioPlaying
    /\ sentenceTimerRef = {} /\ vadIntervalRef = {} /\ endCheckInterval = {}

\* C24: when the stop timer of the last sentence fires with auto play set,
\* auto play is cleared, no playing flag remains, the current index is the
\* last one and no further sentence is scheduled.
C24_LastSentenceEndsAutoPlay ==
  [][\A t \in sentenceTimerRef :
       (ev'.op = "stopTimer" /\ ev'.cb /\ t.ap /\ t.idx = lastIndex) =>
         /\ ~isAutoPlay' /\ ~isPlaying' /\ ~isGlobalPlaying'
         /\ currentSentenceIndex' = lastIndex
         /\ advanceTimers' = {}]_vars

\* C25: pressing a sentence leaves no stop timer armed and starts no
\* playback, in every state.
C25_JumpCancelsAndDoesNotPlay ==
  [][ev'.op \in {"pressStop", "pressPlay", "modeAlert"} =>
       /\ sentenceTimerRef' = {}
       /\ audioPlaying' => audioPlaying
       /\ isPlaying' => isPlaying
       /\ ttsFetches' <= ttsFetches]_vars

\* C26: a mode button changes playbackMode and nothing else.
C26_SelectModeOnlySetsMode ==
  [][ev'.op = "selectMode" =>
       UNCHANGED << mounted, currentSentenceIndex, isPlaying, isAutoPlay,
                    isAudioPlaying, isTTSPlaying, isGlobalPlaying,
                    audioPlayerRef, sentenceTimerRef, advanceTimers,
                    audioPlaying, currentTime, sourceAttached,
                    playerIsPlaying, sentenceEndTime, endCheckInterval,
                    vadIntervalRef, audioContextRef, analyserRef,
                    unheldContext, onSilenceDetectedRef, playPromise,
                    fallbackTimers, speechPending, ttsFetches, sound,
                    orphanSounds, sentences >>]_vars

\* The mode was switched to TTS while the Original audio plays with its
\* stop timer armed.
C26_Witness ==
  /\ ev.op = "selectMode" /\ playbackMode = "tts"
  /\ audioPlaying /\ sentenceTimerRef # {}

\* C27: when a play entry point in Original mode does not get the audio
\* playing, no stop timer is armed after it and no playing flag is set.
C27_FailedStartLeavesIdle ==
  [][(ev'.op \in playOps /\ playbackMode' = "original" /\ ~audioPlaying') =>
       /\ sentenceTimerRef' = {}
       /\ ~isPlaying' /\ ~isGlobalPlaying']_vars

\* C28: after a step that stopped the detector, the sampling interval, the
\* analyser, the registered callback and every analysis context are gone.
C28_StopTearsDownDetector ==
  (ev.op \in {"pressStop", "autoStop", "endCheck"} /\ audioPlayerRef) =>
    /\ vadIntervalRef = {} /\ ~analyserRef /\ onSilenceDetectedRef = {}
    /\ ~audioContextRef /\ ~unheldContext

\* C29: a start of the detector while it is running leaves the sampling
\* interval with its counters and the analysis graph as they are.
C29_RedundantStartIsNoOp ==
  [][(ev'.op = "playResolved" /\ vadIntervalRef # {}) =>
       UNCHANGED << vadIntervalRef, audioContextRef, analyserRef >>]_vars

\* C30: after a play entry point, a ceiling check is armed only if the
\* audio has started playing.
C30_ArmedOnlyAfterPlay ==
  [][(ev'.op \in playOps /\ endCheckInterval' # {}) => audioPlaying']_vars

\* C31: a call of getTranscriptData never returns a result without
\* sentences, and never records in sourceCache the source of a result
\* without sentences.
C31_EmptyResultIsFailure ==
  [][(rpc # "returned" /\ rpc' = "returned") =>
       \A res \in result' : Len(res.sentences) > 0]_vars

\* C32: with a transcript loaded, currentSentenceIndex is the index of one
\* of its sentences in every state.
C32_CurrentIndexInRange ==
  Len(sentences) > 0 =>
    (currentSentenceIndex >= 0 /\ currentSentenceIndex < Len(sentences))

\* Auto play has just started the last sentence, which is the current one.
C32_Witness ==
  /\ ev.op = "advance" /\ isAutoPlay
  /\ currentSentenceIndex = lastIndex
  /\ \E t \in sentenceTimerRef : t.idx = lastIndex

\* C33: a step changes sourceCache at most at the video of the call in
\* progress, and when loadTranscript ends with an error the entry of its
\* video is the one the call read when it began.
C33_CacheChangesOnSuccessOnly ==
  [][/\ \A v \in VideoIds :
          v # videoId' => sourceCache'[v] = sourceCache[v]
     /\ transcriptError' # {} =>
          sourceCache'[videoId'] = preferredSource']_vars

triggerOps ==
  {"stopTimer", "silenceTick", "speechTick", "endCheck", "fallback", "advance"}

\* C35: once the screen is unmounted no trigger fires and the audio does
\* not play.
C35_UnmountDestroysTriggers ==
  [][~mounted => (ev'.op \notin triggerOps /\ ~audioPlaying')]_vars

\* C36: enabling Auto Play sets isAutoPlay, selects Original when no mode
\* was selected, and with the audio loaded starts the current sentence.
C36_AutoPlayStartsPlaying ==
  [][ev'.op = "autoStart" =>
       /\ isAutoPlay'
       /\ playbackMode' = (IF playbackMode = "none" THEN "original"
                                                   ELSE playbackMode)
       /\ audioPlayerRef =>
            \/ audioPlaying' /\ isPlaying'
            \/ ttsFetches' > ttsFetches]_vars

\* The steps taken without the learner: timers and playback events
unattendedOps ==
  {"stopTimer", "advance", "speechStopped", "fetchDone", "soundFinished",
   "orphanFinished"}

\* C37: once the learner gives no more input and every start of the audio
\* succeeds, auto-advance comes to an end: from some point on no stop timer
\* is armed and no auto-advance is scheduled.
C37_AutoAdvanceTerminates ==
  (<>[][/\ ev'.op \in unattendedOps
        /\ ev'.op = "advance" => audioPlaying']_vars) =>
    <>[](sentenceTimerRef = {} /\ advanceTimers = {})

\* Something is playing or about to: the audio, a TTS sound or utterance,
\* a TTS request, an armed trigger or a scheduled auto-advance
playbackActive ==
  \/ audioPlaying \/ sound \/ orphanSounds > 0
  \/ ttsFetches > 0 \/ speechPending > 0
  \/ armedTriggers > 0 \/ fallbackTimers > 0 \/ playPromise # {}

\* C38: with the audio loaded, isGlobalPlaying is true only while
\* something is playing or pending.
C38_GlobalFlagMatchesPlayback ==
  (isGlobalPlaying /\ audioPlayerRef) => playbackActive

\* C39: no TTS sound plays that TTSService no longer holds (so at most one
\* plays, and stop() reaches every sound that plays), and no sound starts
\* in the step that follows a stop of a pressed sentence.
C39_TtsSingleAndStoppable ==
  [][/\ orphanSounds' = 0
     /\ (ev.op = "pressStop" /\ ev'.op = "fetchDone") => (sound' => sound)]_vars

====
